---------------------------- MODULE Spec2Model ----------------------------
(***************************************************************************)
(* EchoWarp: the session control plane (handshake, heartbeat, reconnect,   *)
(* ban ledger, shutdown) and the gate it drives on the audio data plane.   *)
(*                                                                         *)
(* One process is modelled: a server or a client (is_server), with its     *)
(* control thread (constructor, start_streaming), its data-plane thread    *)
(* (ServerStreamer / ClientStreamReceiver), the worker pool and the SIGINT *)
(* handler.  The peer and the network are the environment: every socket    *)
(* call on a connected socket may succeed or raise, and what is received   *)
(* is chosen from the outcomes the code distinguishes.                     *)
(*                                                                         *)
(* The streamer and the client transport name members of the transport     *)
(* base by earlier names (_client_addr, _udp_server_socket,                *)
(* _cleanup_client_sockets); they are read here as _client_address,        *)
(* _udp_socket and _cleanup_tcp_socket.  The client transport overrides    *)
(* neither _print_udp_listener_and_start_stream nor                        *)
(* _print_pause_udp_listener_and_pause_stream, so on the client both are   *)
(* the base's empty bodies.  Writing the ban file is taken to succeed.     *)
(***************************************************************************)
EXTENDS Integers, FiniteSets, Sequences, TLC

(* ------------------------------ bounds -------------------------------- *)

\* largest reconnect budget (-r) the runs are started with
MaxR == 2

\* connections the peers make to the server in one run
MaxAccepts == 3

\* tasks the worker pool may hold unexecuted
MaxPending == 1

\* LOCKED messages are counted up to this number
MaxLocked == 2

(* ----------------------------- constants ------------------------------ *)

IPs == {"ip1", "ip2"}

NoEntry == [absent |-> TRUE]

NoAuth ==
    [code |-> 0, sent |-> FALSE, pw_ok |-> FALSE, ver_ok |-> FALSE,
     was_banned |-> FALSE, failed_before |-> 0]

NoDatagram == [dst |-> "none", authed |-> FALSE]

OK_MESSAGE == 200

ACCEPTED_MESSAGE == 202

UNAUTHORIZED_MESSAGE == 401

FORBIDDEN_MESSAGE == 403

CONFLICT_MESSAGE == 409

LOCKED_MESSAGE == 423

\* the comparability versions the builds of the peers carry
Versions == {1, 2}

\* DefaultValuesAndOptions.get_util_comparability_version() of this process
util_comparability_version == 1

\* settings.udp_port: the chosen port P (the default)
udp_port == 4415

\* TransportBase.__init__: self._tcp_port = settings.udp_port - 1
tcp_port == udp_port - 1

NoPlayback == [last |-> "none", dropped |-> FALSE]

NoFrame == [stage |-> "none"]

NoMessage == [stage |-> "none"]

\* nothing was read on the control connection yet
NoReceipt == [kind |-> "none", code |-> 0, config |-> FALSE]

VARIABLES
    is_server,            \* settings.is_server
    reconnect_attempt,    \* settings.reconnect_attempt (R)
    stop_util,            \* _stop_util_event
    stop_stream,          \* _stop_stream_event
    stop_message_send,    \* __stop_message_send
    client_tcp_socket,    \* "none" | "fresh" | "open" | "dead" | "closed"
    udp_socket,           \* _udp_socket: "open" | "closed"
    server_tcp_socket,    \* "none" | "listening" | "closed"
    client_udp_socket,    \* client's bound data socket: "none" | "open" | "closed"
    client_address,       \* _client_address: "none" or the last accepted IP
    ban_list,             \* BanList.__ban_list: IP -> ClientStatus or NoEntry
    ban_list_file,        \* the IPs listed in echowarp_ban_list.txt
    pc,                   \* position of the control thread
    ctx,                  \* caller of the running _established_connection / heartbeat
    sd_ret,               \* call site of the running _shutdown
    is_client_exit,       \* argument of the running __reconnect
    attempt,              \* local of __perform_reconnect_attempts
    spc,                  \* position of the data-plane thread
    pending,              \* tasks submitted to the executor and not yet run
    key_installed,        \* client: session key, IV and flags loaded
    exit_kind,            \* how run_app ended, as main() classifies it
    last_auth,            \* history: the handshake of the current connection
    last_dgram,           \* history: the last audio datagram sent
    locked_sent,          \* history: LOCKED messages put on the wire
    reconnects,           \* history: has __reconnect been entered
    accepts,              \* history: connections accepted so far
    retry_resumed,        \* history: the last __reconnect returned on the in-place retry
    peer_version,         \* comparability_version of the last handshake message decoded
    peer_locked,          \* history: LOCKED was received on the current connection
    playback,             \* history: what became of the datagrams the client decoded
    control_port,         \* TCP port the control socket is bound or connected to
    last_sent,            \* history: the control message sent in this handshake or round
    last_recv,            \* history: what the read of this handshake or round gave
    config_sent,          \* history: the peer the config sub-record was last sent to
    crypto,               \* a frame taken through the AES / hash pipeline
    codec                 \* a control message taken through the JSON codec

vars == <<is_server, reconnect_attempt, stop_util, stop_stream, stop_message_send,
          client_tcp_socket, udp_socket, server_tcp_socket, client_udp_socket,
          client_address, ban_list, ban_list_file, pc, ctx, sd_ret, is_client_exit,
          attempt, spc, pending, key_installed, exit_kind, last_auth, last_dgram,
          locked_sent, reconnects, accepts, retry_resumed, peer_version,
          peer_locked, playback, control_port, last_sent, last_recv,
          config_sent, crypto, codec>>

sockets == <<client_tcp_socket, udp_socket, server_tcp_socket, client_udp_socket>>

events == <<stop_util, stop_stream>>

ledger == <<ban_list, ban_list_file>>

settings == <<is_server, reconnect_attempt>>

history == <<last_auth, last_dgram, locked_sent, reconnects, accepts, retry_resumed>>

data_plane == <<spc, pending>>

extra == <<peer_version, peer_locked, playback, control_port>>

wire == <<last_sent, last_recv, config_sent>>

pure == <<crypto, codec>>

(* --------------------- the control-message codec ----------------------- *)

\* an optional integer: None, or the integer
None == [has |-> FALSE, value |-> 0]

Some(v) == [has |-> TRUE, value |-> v]

\* the values tried for failed_connections and reconnect_attempts
SampleCounts == {0, 2}

OptionalCounts == {None} \cup {Some(v) : v \in SampleCounts}

\* a message without the "config" sub-record
NoConfig ==
    [has |-> FALSE, is_encrypt |-> FALSE, is_integrity_control |-> FALSE,
     aes_key |-> "", aes_iv |-> ""]

\* the "config" sub-records tried (key and IV are base64 strings)
Configs ==
    [has : {TRUE}, is_encrypt : BOOLEAN, is_integrity_control : BOOLEAN,
     aes_key : {"a2V5"}, aes_iv : {"aXY="}]

\* the control messages of this build: the heartbeat and shutdown messages,
\* and the configuration message the server ends the handshake with
ControlMessages ==
    [message : {"Accepted", "Locked"},
     response_code : {ACCEPTED_MESSAGE, LOCKED_MESSAGE},
     version : {util_comparability_version},
     failed_connections : OptionalCounts,
     reconnect_attempts : OptionalCounts,
     config : {NoConfig}]
    \cup
    [message : {"OK"},
     response_code : {OK_MESSAGE},
     version : {util_comparability_version},
     failed_connections : {Some(v) : v \in SampleCounts},
     reconnect_attempts : {Some(v) : v \in SampleCounts},
     config : Configs]

NoJSON ==
    [message |-> "", response_code |-> 0, comparability_version |-> 0,
     failed_connections |-> None, reconnect_attempts |-> None, config |-> NoConfig]

NotDecoded ==
    [ok |-> FALSE, message |-> "", response_code |-> 0, version |-> 0,
     failed_connections |-> None, reconnect_attempts |-> None, config |-> NoConfig]

\* JSONMessage.encode_message_to_json_bytes: a budget that is not positive is
\* sent as null
encode_message_to_json_bytes(message, response_code, failed_connections, reconnect_attempts) ==
    [message |-> message,
     response_code |-> response_code,
     comparability_version |-> util_comparability_version,
     failed_connections |-> failed_connections,
     reconnect_attempts |-> IF reconnect_attempts.has /\ reconnect_attempts.value <= 0
                            THEN None ELSE reconnect_attempts,
     config |-> NoConfig]

\* JSONMessageServer.encode_server_config_to_json_bytes: the message is OK / 200
\* and the two counters are integers
encode_server_config_to_json_bytes(is_encrypt, is_hash_control, aes_key, aes_iv, failed_connections, reconnect_attempts) ==
    [message |-> "OK",
     response_code |-> OK_MESSAGE,
     comparability_version |-> util_comparability_version,
     failed_connections |-> Some(failed_connections),
     reconnect_attempts |-> IF reconnect_attempts <= 0
                            THEN None ELSE Some(reconnect_attempts),
     config |-> [has |-> TRUE, is_encrypt |-> is_encrypt,
                 is_integrity_control |-> is_hash_control,
                 aes_key |-> aes_key, aes_iv |-> aes_iv]]

\* JSONMessage.__init__
JSONMessage(json) ==
    [ok |-> TRUE,
     message |-> json.message,
     response_code |-> json.response_code,
     version |-> json.comparability_version,
     failed_connections |-> json.failed_connections,
     reconnect_attempts |-> json.reconnect_attempts,
     config |-> NoConfig]

\* JSONMessageServer.__init__: the config sub-record is required
JSONMessageServer(json) ==
    IF ~json.config.has THEN NotDecoded
    ELSE [JSONMessage(json) EXCEPT !.config = json.config]

\* the encoder the sender of m calls
encode(m) ==
    IF m.config.has
    THEN encode_server_config_to_json_bytes(m.config.is_encrypt,
                                            m.config.is_integrity_control,
                                            m.config.aes_key, m.config.aes_iv,
                                            m.failed_connections.value,
                                            m.reconnect_attempts.value)
    ELSE encode_message_to_json_bytes(m.message, m.response_code,
                                      m.failed_connections, m.reconnect_attempts)

\* the decoder the receiver of m calls
decode(json, with_config) ==
    IF with_config THEN JSONMessageServer(json) ELSE JSONMessage(json)

(* --------------------------- ban ledger ------------------------------- *)

\* ClientStatus.__init__
ClientStatus(is_banned, R) ==
    [is_banned |-> is_banned,
     is_first_time_message |-> TRUE,
     failed_connect_attempts |-> IF is_banned THEN R ELSE 0,
     all_failed_connect_attempts |-> IF is_banned THEN R ELSE 0,
     success_connect_attempts |-> 0]

\* success_connect_attempt that also forgets the failures counted in total
success_connect_attempt_forgets(c) ==
    [c EXCEPT !.failed_connect_attempts = 0,
              !.all_failed_connect_attempts = 0,
              !.success_connect_attempts = @ + 1,
              !.is_banned = FALSE,
              !.is_first_time_message = TRUE]

\* ClientStatus.success_connect_attempt
success_connect_attempt(c) ==
    [c EXCEPT !.failed_connect_attempts = 0,
              !.success_connect_attempts = @ + 1,
              !.is_banned = FALSE,
              !.is_first_time_message = TRUE]

\* the ban threshold compared strictly: a peer is banned one failure late
fail_connect_attempt_strict(c, R) ==
    LET f == IF c.is_banned THEN c.failed_connect_attempts
                            ELSE c.failed_connect_attempts + 1
        a == IF c.is_banned THEN c.all_failed_connect_attempts
                            ELSE c.all_failed_connect_attempts + 1
    IN [c EXCEPT !.failed_connect_attempts = f,
                 !.all_failed_connect_attempts = a,
                 !.is_banned = IF f > R /\ R > 0 THEN TRUE ELSE @]

\* fail_connect_attempt that counts the failure of a banned peer as well
fail_connect_attempt_counts_banned(c, R) ==
    LET f == c.failed_connect_attempts + 1
        a == c.all_failed_connect_attempts + 1
    IN [c EXCEPT !.failed_connect_attempts = f,
                 !.all_failed_connect_attempts = a,
                 !.is_banned = IF f >= R /\ R > 0 THEN TRUE ELSE @]

\* ClientStatus.fail_connect_attempt
fail_connect_attempt(c, R) ==
    LET f == IF c.is_banned THEN c.failed_connect_attempts
                            ELSE c.failed_connect_attempts + 1
        a == IF c.is_banned THEN c.all_failed_connect_attempts
                            ELSE c.all_failed_connect_attempts + 1
    IN [c EXCEPT !.failed_connect_attempts = f,
                 !.all_failed_connect_attempts = a,
                 !.is_banned = IF f >= R /\ R > 0 THEN TRUE ELSE @]

\* a query of the flag that leaves it set
is_first_time_message_kept(c) == c

\* ClientStatus.is_first_time_message: the entry after the query, which
\* returns the flag as it was; the flag is cleared by the query
is_first_time_message(c) == [c EXCEPT !.is_first_time_message = FALSE]

\* BanList.__get_ban_list: the entries a new BanList holds for a ban file
get_ban_list(file, R) ==
    [ip \in IPs |-> IF R > 0 /\ ip \in file THEN ClientStatus(TRUE, R) ELSE NoEntry]

\* BanList.add_client_to_ban_list
add_client_to_ban_list(bl, ip, R) ==
    IF bl[ip] = NoEntry THEN [bl EXCEPT ![ip] = ClientStatus(FALSE, R)] ELSE bl

\* BanList.is_banned
is_banned(bl, ip) ==
    IF bl[ip] = NoEntry THEN FALSE ELSE bl[ip].is_banned

\* the ban file written with every client of the ledger, banned or not
update_ban_list_file_all_clients(bl, file, R) ==
    LET clients == {ip \in IPs : bl[ip] # NoEntry}
    IN IF R <= 0 THEN file
       ELSE IF Cardinality(clients) > 0 THEN clients ELSE file

\* BanList.update_ban_list_file: the file's content after the call
update_ban_list_file(bl, file, R) ==
    LET banned_clients == {ip \in IPs : is_banned(bl, ip)}
    IN IF R <= 0 THEN file
       ELSE IF Cardinality(banned_clients) > 0 THEN banned_clients ELSE file

\* the reply of __authenticate_client with the version checked before the password
AuthReplyCode_version_first(banned, pw_ok, ver_ok) ==
    IF banned THEN FORBIDDEN_MESSAGE
    ELSE IF ~ver_ok THEN CONFLICT_MESSAGE
    ELSE IF ~pw_ok THEN UNAUTHORIZED_MESSAGE
    ELSE OK_MESSAGE

\* the reply of __authenticate_client with the ban checked after the password
\* and the version
AuthReplyCode_ban_last(banned, pw_ok, ver_ok) ==
    IF ~pw_ok THEN UNAUTHORIZED_MESSAGE
    ELSE IF ~ver_ok THEN CONFLICT_MESSAGE
    ELSE IF banned THEN FORBIDDEN_MESSAGE
    ELSE OK_MESSAGE

\* the reply of __authenticate_client without the check of the ban
AuthReplyCode_ban_ignored(banned, pw_ok, ver_ok) ==
    IF ~pw_ok THEN UNAUTHORIZED_MESSAGE
    ELSE IF ~ver_ok THEN CONFLICT_MESSAGE
    ELSE OK_MESSAGE

\* TransportServer.__authenticate_client: the reply chosen for a decoded message
AuthReplyCode(banned, pw_ok, ver_ok) ==
    IF banned THEN FORBIDDEN_MESSAGE
    ELSE IF ~pw_ok THEN UNAUTHORIZED_MESSAGE
    ELSE IF ~ver_ok THEN CONFLICT_MESSAGE
    ELSE OK_MESSAGE

(* ------------------------------- Init --------------------------------- *)

InitProgram ==
    /\ is_server \in BOOLEAN
    /\ reconnect_attempt \in 0..MaxR
    /\ stop_util = FALSE
    /\ stop_stream = FALSE
    /\ stop_message_send = FALSE
    /\ client_tcp_socket = "none"
    /\ udp_socket = "open"
    /\ server_tcp_socket = "none"
    /\ client_udp_socket = "none"
    /\ client_address = "none"
    /\ ban_list = [ip \in IPs |-> NoEntry]
    /\ ban_list_file \in SUBSET IPs
    /\ pc = "init"
    /\ ctx = "init"
    /\ sd_ret = "none"
    /\ is_client_exit = FALSE
    /\ attempt = 0
    /\ spc = "off"
    /\ pending = 0
    /\ key_installed = FALSE
    /\ exit_kind = "none"
    /\ last_auth = NoAuth
    /\ last_dgram = NoDatagram
    /\ locked_sent = 0
    /\ reconnects = FALSE
    /\ accepts = 0
    /\ retry_resumed = FALSE
    /\ peer_version = 0
    /\ peer_locked = FALSE
    /\ playback = NoPlayback
    /\ control_port = 0
    /\ last_sent = NoJSON
    /\ last_recv = NoReceipt
    /\ config_sent = "none"

Init ==
    /\ InitProgram
    /\ crypto = NoFrame
    /\ codec = NoMessage

(* ------------------------ exits through main() ------------------------ *)

\* main(): run_app returned
ExitNormal ==
    /\ pc' = "exited"
    /\ exit_kind' = "normal"

\* main(): except (socket.gaierror, OSError) / except RuntimeError: logged only
ExitLogged ==
    /\ pc' = "exited"
    /\ exit_kind' = "error"
    /\ UNCHANGED events

\* main(): except Exception: both events are set
ExitCritical ==
    /\ pc' = "exited"
    /\ exit_kind' = "critical"
    /\ stop_stream' = TRUE
    /\ stop_util' = TRUE

(* ----------------------------- sockets -------------------------------- *)

\* _cleanup_tcp_socket: shutdown() then close(); an error raised by shutdown()
\* is logged and close() is skipped
cleanup_tcp_socket(s) ==
    CASE s = "open"   -> {"closed", "dead"}
      [] s = "closed" -> {"closed"}
      [] OTHER        -> {s}

\* can a send on the control socket succeed
CanSend(s) == s = "open"

\* the exception a send or receive on socket s raises when it fails for sure
SocketFault(s) == IF s = "none" THEN "AttributeError" ELSE "OSError"

\* _established_connection that keeps listening after a handshake succeeded
ReturnEstablished_listens ==
    pc' = "accept"

\* the return of _established_connection to its caller
ReturnEstablished ==
    pc' = IF ctx = "init" THEN "start" ELSE "rc_after"

(* --------------------------- server: accept --------------------------- *)

\* TransportServer.__init__ up to _initialize_socket: bind(('', self._udp_port))
\* and listen succeed
ServerInit ==
    /\ pc = "init"
    /\ is_server
    /\ ban_list' = get_ban_list(ban_list_file, reconnect_attempt)
    /\ server_tcp_socket' = "listening"
    /\ control_port' = udp_port
    /\ pc' = "accept"
    /\ ctx' = "init"
    /\ UNCHANGED <<settings, wire, peer_version, peer_locked, playback, pure, events, stop_message_send, client_tcp_socket, udp_socket,
                   client_udp_socket, client_address, ban_list_file, sd_ret,
                   is_client_exit, attempt, data_plane, key_installed, exit_kind,
                   history>>

\* _initialize_socket raises (bind): the constructor fails and main() logs it
ServerBindFails ==
    /\ pc = "init"
    /\ is_server
    /\ ban_list' = get_ban_list(ban_list_file, reconnect_attempt)
    /\ ExitLogged
    /\ UNCHANGED <<settings, wire, extra, pure, stop_message_send, sockets, client_address,
                   ban_list_file, ctx, sd_ret, is_client_exit, attempt, data_plane,
                   key_installed, history>>

\* _established_connection: the loop condition finds stop_util set
AcceptStopped ==
    /\ pc = "accept"
    /\ stop_util
    /\ ReturnEstablished
    /\ UNCHANGED <<settings, wire, extra, pure, events, stop_message_send, sockets, client_address,
                   ledger, ctx, sd_ret, is_client_exit, attempt, data_plane,
                   key_installed, exit_kind, history>>

\* _established_connection: accept() returns a connection from ip
Accept ==
    /\ pc = "accept"
    /\ ~stop_util
    /\ accepts < MaxAccepts
    /\ accepts' = accepts + 1
    /\ \E ip \in IPs :
        /\ client_tcp_socket' = "open"
        /\ client_address' = ip
        /\ last_auth' = NoAuth
        /\ peer_version' = 0
        /\ peer_locked' = FALSE
        /\ last_sent' = NoJSON
        /\ last_recv' = NoReceipt
        /\ LET bl == add_client_to_ban_list(ban_list, ip, reconnect_attempt)
               first == bl[ip].is_first_time_message
               read == [bl EXCEPT ![ip] = is_first_time_message(@)]
           IN IF is_banned(bl, ip)
              THEN IF first
                   THEN /\ ban_list' = read
                        /\ pc' = "auth"
                   ELSE /\ ban_list' =
                              [read EXCEPT ![ip] = fail_connect_attempt(@, reconnect_attempt)]
                        /\ pc' = "accept"
              ELSE /\ ban_list' = bl
                   /\ pc' = "auth"
    /\ UNCHANGED <<settings, config_sent, playback, control_port, pure, events,
                   stop_message_send, udp_socket, server_tcp_socket,
                   client_udp_socket, ban_list_file, ctx, sd_ret, is_client_exit,
                   attempt, data_plane, key_installed, exit_kind, last_dgram,
                   locked_sent, reconnects, retry_resumed>>

(* ------------------------- server: handshake -------------------------- *)

\* ResponseMessage.response_message of a response code
response_message(code) ==
    CASE code = OK_MESSAGE           -> "OK"
      [] code = ACCEPTED_MESSAGE     -> "Accepted"
      [] code = UNAUTHORIZED_MESSAGE -> "Unauthorized"
      [] code = FORBIDDEN_MESSAGE    -> "Forbidden"
      [] code = CONFLICT_MESSAGE     -> "Conflict"
      [] OTHER                       -> "Locked"

\* __form_error_message: the reply with the ledger telemetry of the peer
form_error_message(code, c, R) ==
    encode_message_to_json_bytes(response_message(code), code,
                                 Some(c.failed_connect_attempts), Some(R))

\* __send_configuration: the flags, key and IV of the server's CryptoManager
\* with the ledger telemetry of the peer
send_configuration(c, R) ==
    encode_server_config_to_json_bytes(TRUE, TRUE, "a2V5", "aXY=",
                                       c.failed_connect_attempts, R)

\* __authenticate_client fails before the message of the client is decoded
\* (socket error or timeout, bad public key, RSA decryption, JSON decoding):
\* no ledger operation is reached; _established_connection logs, updates the
\* ban file and continues
AuthGarbled ==
    /\ pc = "auth"
    /\ last_auth' = [NoAuth EXCEPT !.code = 1,
                                   !.was_banned = is_banned(ban_list, client_address),
                                   !.failed_before =
                                       ban_list[client_address].failed_connect_attempts]
    /\ ban_list_file' = update_ban_list_file(ban_list, ban_list_file, reconnect_attempt)
    /\ pc' = "accept"
    /\ UNCHANGED <<settings, wire, extra, pure, events, stop_message_send, sockets, client_address,
                   ban_list, ctx, sd_ret, is_client_exit, attempt, data_plane,
                   key_installed, exit_kind, last_dgram, locked_sent, reconnects,
                   accepts, retry_resumed>>

\* __authenticate_client on a decoded message that fails a check:
\* __form_error_message counts the failure, sends the reply and raises
AuthRejected ==
    /\ pc = "auth"
    /\ \E pw_ok \in BOOLEAN, v \in Versions, send_ok \in BOOLEAN :
        LET ip == client_address
            ver_ok == v = util_comparability_version
            banned == is_banned(ban_list, ip)
            code == AuthReplyCode(banned, pw_ok, ver_ok)
            bl == [ban_list EXCEPT ![ip] = fail_connect_attempt(@, reconnect_attempt)]
        IN /\ code # OK_MESSAGE
           /\ ban_list' = bl
           /\ peer_version' = v
           /\ last_auth' = [code |-> code, sent |-> send_ok, pw_ok |-> pw_ok,
                            ver_ok |-> ver_ok, was_banned |-> banned,
                            failed_before |-> ban_list[ip].failed_connect_attempts]
           /\ ban_list_file' = update_ban_list_file(bl, ban_list_file, reconnect_attempt)
           /\ last_sent' = IF send_ok
                            THEN form_error_message(code, bl[ip], reconnect_attempt)
                            ELSE last_sent
    /\ pc' = "accept"
    /\ UNCHANGED <<settings, last_recv, config_sent, peer_locked, playback, control_port, pure, events, stop_message_send, sockets, client_address,
                   ctx, sd_ret, is_client_exit, attempt, data_plane, key_installed,
                   exit_kind, last_dgram, locked_sent, reconnects, accepts, retry_resumed>>

\* __authenticate_client on a message that passes every check:
\* success_connect_attempt, then __send_configuration, which may raise
AuthAccepted ==
    /\ pc = "auth"
    /\ \E pw_ok \in BOOLEAN, v \in Versions, send_ok \in BOOLEAN :
        LET ip == client_address
            ver_ok == v = util_comparability_version
            banned == is_banned(ban_list, ip)
            bl == [ban_list EXCEPT ![ip] = success_connect_attempt(@)]
        IN /\ AuthReplyCode(banned, pw_ok, ver_ok) = OK_MESSAGE
           /\ ban_list' = bl
           /\ peer_version' = v
           /\ last_auth' = [code |-> OK_MESSAGE, sent |-> send_ok, pw_ok |-> pw_ok,
                            ver_ok |-> ver_ok, was_banned |-> banned,
                            failed_before |-> ban_list[ip].failed_connect_attempts]
           /\ ban_list_file' = update_ban_list_file(bl, ban_list_file, reconnect_attempt)
           /\ last_sent' = IF send_ok
                            THEN send_configuration(bl[ip], reconnect_attempt)
                            ELSE last_sent
           /\ config_sent' = IF send_ok THEN ip ELSE config_sent
           /\ IF send_ok THEN ReturnEstablished ELSE pc' = "accept"
    /\ UNCHANGED <<settings, last_recv, peer_locked, playback, control_port, pure, events, stop_message_send, sockets, client_address,
                   ctx, sd_ret, is_client_exit, attempt, data_plane, key_installed,
                   exit_kind, last_dgram, locked_sent, reconnects, accepts, retry_resumed>>

(* ------------------------- client: connection ------------------------- *)

\* TransportClient.__init__ up to _initialize_socket: the sockets are created
ClientInit ==
    /\ pc = "init"
    /\ ~is_server
    /\ client_tcp_socket' = "fresh"
    /\ client_udp_socket' = "open"
    /\ pc' = "connect"
    /\ ctx' = "init"
    /\ UNCHANGED <<settings, wire, extra, pure, events, stop_message_send, udp_socket, server_tcp_socket,
                   client_address, ledger, sd_ret, is_client_exit, attempt, data_plane,
                   key_installed, exit_kind, history>>

\* _initialize_socket raises (bind of the UDP socket): main() logs it
ClientBindFails ==
    /\ pc = "init"
    /\ ~is_server
    /\ client_tcp_socket' = "fresh"
    /\ client_udp_socket' = "open"
    /\ ExitLogged
    /\ UNCHANGED <<settings, wire, extra, pure, stop_message_send, udp_socket, server_tcp_socket,
                   client_address, ledger, ctx, sd_ret, is_client_exit, attempt,
                   data_plane, key_installed, history>>

\* an event left as it is at the start of _established_connection
clear_kept(gate) == gate

\* self._stop_stream_event.clear()
clear(gate) == FALSE

\* TransportClient._established_connection(False): stop_stream is cleared and
\* connect is retried until it succeeds or stop_util is set
ConnectInitial ==
    /\ pc = "connect"
    /\ ctx = "init"
    /\ stop_stream' = clear(stop_stream)
    /\ last_sent' = NoJSON
    /\ last_recv' = NoReceipt
    /\ \/ /\ stop_util
          /\ pc' = "cauth"
          /\ UNCHANGED <<client_tcp_socket, control_port>>
       \/ /\ ~stop_util
          /\ control_port' = tcp_port
          /\ \E ok \in BOOLEAN :
                IF ok THEN /\ client_tcp_socket' = "open"
                           /\ pc' = "cauth"
                      ELSE /\ UNCHANGED client_tcp_socket
                           /\ pc' = "connect"
    /\ UNCHANGED <<settings, config_sent, peer_version, peer_locked, playback, pure,
                   stop_util, stop_message_send, udp_socket,
                   server_tcp_socket, client_udp_socket, client_address, ledger, ctx,
                   sd_ret, is_client_exit, attempt, data_plane, key_installed,
                   exit_kind, history>>

\* TransportClient._established_connection(): stop_stream is cleared and one
\* connect is made; its socket error is counted by __perform_reconnect_attempts
ConnectRetry ==
    /\ pc = "connect"
    /\ ctx = "reconnect"
    /\ stop_stream' = clear(stop_stream)
    /\ last_sent' = NoJSON
    /\ last_recv' = NoReceipt
    /\ control_port' = tcp_port
    /\ \E ok \in BOOLEAN :
          IF ok THEN /\ client_tcp_socket' = "open"
                     /\ pc' = "cauth"
                     /\ UNCHANGED attempt
                ELSE /\ UNCHANGED client_tcp_socket
                     /\ attempt' = attempt + 1
                     /\ pc' = "rc_attempts"
    /\ UNCHANGED <<settings, config_sent, peer_version, peer_locked, playback, pure,
                   stop_util, stop_message_send, udp_socket,
                   server_tcp_socket, client_udp_socket, client_address, ledger, ctx,
                   sd_ret, is_client_exit, data_plane, key_installed, exit_kind,
                   history>>

\* what the client can read as the reply of the server: a decoded message
\* with its response code and version, or nothing usable; of the replies only
\* a 200 is built with the config sub-record
NoReply == [code |-> 0, version |-> 0, config |-> FALSE]

ServerReplies ==
    {r \in [code : {OK_MESSAGE, ACCEPTED_MESSAGE, UNAUTHORIZED_MESSAGE,
                    FORBIDDEN_MESSAGE, CONFLICT_MESSAGE},
            version : Versions,
            config : BOOLEAN] : r.config => r.code = OK_MESSAGE}

\* JSONMessageServer.__init__ raises unless the reply has the config sub-record
Decodes(config) == config

\* __authenticate_with_server: the message of the client, password and 200
auth_client_message ==
    encode_message_to_json_bytes("cGFzc3dvcmQ=", OK_MESSAGE, None, None)

\* the client installs the key whatever version the server reports
ClientAccepts_any_version(code, version) ==
    code = OK_MESSAGE

\* __authenticate_with_server: the reply is taken when it is the 200 message
\* and its version equals the version of the client
ClientAccepts(code, version) ==
    code = OK_MESSAGE /\ version = util_comparability_version

\* __authenticate_with_server: the key is installed on a 200 with matching
\* version (loading it may still fail); every failure is caught and sets
\* stop_util; then _established_connection sets stop_stream and returns
ClientAuth ==
    /\ pc = "cauth"
    /\ \E reply \in ServerReplies \cup {NoReply}, loaded \in BOOLEAN,
          sent \in BOOLEAN :
        /\ sent => client_tcp_socket = "open"
        /\ reply # NoReply => sent
        /\ peer_version' = reply.version
        /\ last_sent' = IF sent THEN auth_client_message ELSE last_sent
        /\ last_recv' = [kind |-> "handshake", code |-> reply.code,
                         config |-> reply.config]
        /\ IF Decodes(reply.config) /\ ClientAccepts(reply.code, reply.version)
              /\ loaded
           THEN /\ key_installed' = TRUE
                /\ UNCHANGED stop_util
           ELSE /\ stop_util' = TRUE
                /\ UNCHANGED key_installed
    /\ stop_stream' = TRUE
    /\ ReturnEstablished
    /\ UNCHANGED <<settings, config_sent, peer_locked, playback, control_port, pure,
                   stop_message_send, sockets, client_address, ledger, ctx,
                   sd_ret, is_client_exit, attempt, data_plane, exit_kind, history>>

(* ----------------------------- heartbeat ------------------------------ *)

\* both sides send before they receive
FirstPhase_send(is_srv) == "hb_send"

\* __send_and_get_heartbeat_message: the server receives first, the client
\* sends first
FirstPhase(is_srv) == IF is_srv THEN "hb_recv" ELSE "hb_send"

\* __send_and_get_heartbeat_message: after a heartbeat was received the
\* server sends its own, the client has finished the round
AfterReceive(is_srv) == IF is_srv THEN "hb_send" ELSE "hb_loop"

\* __send_and_get_heartbeat_message: after the heartbeat was sent the server
\* has finished the round, the client receives
AfterSend(is_srv) == IF is_srv THEN "hb_loop" ELSE "hb_recv"

\* run_app / start_streaming: audio_thread.start()
StartStreaming ==
    /\ pc = "start"
    /\ spc' = "check"
    /\ pc' = "hb_loop"
    /\ ctx' = "loop"
    /\ UNCHANGED <<settings, wire, extra, pure, events, stop_message_send, sockets, client_address,
                   ledger, sd_ret, is_client_exit, attempt, pending, key_installed,
                   exit_kind, history>>

\* start_streaming: while not stop_util, a new heartbeat round; after the
\* loop, _shutdown()
HeartbeatLoop ==
    /\ pc = "hb_loop"
    /\ IF stop_util
       THEN /\ pc' = "shutdown"
            /\ sd_ret' = "final"
       ELSE /\ pc' = FirstPhase(is_server)
            /\ UNCHANGED sd_ret
    /\ last_sent' = NoJSON
    /\ last_recv' = NoReceipt
    /\ ctx' = "loop"
    /\ UNCHANGED <<settings, config_sent, extra, pure, events, stop_message_send, sockets, client_address,
                   ledger, is_client_exit, attempt, data_plane, key_installed,
                   exit_kind, history>>

\* what __receive_heartbeat_and_validate can yield on the control socket:
\* a heartbeat, LOCKED, an empty read, a message that fails decryption or the
\* hash comparison, one that is no control message, one with another code,
\* or an error or timeout of recv
Received ==
    IF client_tcp_socket = "open"
    THEN {"accepted", "locked", "null", "integrity", "undecodable", "other_code",
          "socket_error"}
    ELSE {"socket_error"}

\* a message that fails the integrity check is taken for a shutdown message
heartbeat_exception_integrity_locked(r) ==
    CASE r = "accepted"     -> "none"
      [] r \in {"locked", "integrity"} -> "RuntimeError"
      [] r = "socket_error" -> "OSError"
      [] r = "undecodable"  -> "Exception"
      [] OTHER              -> "ValueError"

\* __receive_heartbeat_and_validate: the exception each outcome raises
heartbeat_exception(r) ==
    CASE r = "accepted"     -> "none"
      [] r = "locked"       -> "RuntimeError"
      [] r = "socket_error" -> "OSError"
      [] r = "undecodable"  -> "Exception"
      [] OTHER              -> "ValueError"

\* what the read gave: the code of the message when it had one
Receipt(r) ==
    [kind |-> "heartbeat",
     code |-> CASE r = "accepted"   -> ACCEPTED_MESSAGE
                [] r = "locked"     -> LOCKED_MESSAGE
                [] r = "other_code" -> OK_MESSAGE
                [] OTHER            -> 0,
     config |-> FALSE]

\* start_streaming, except RuntimeError, taken as if both sides broke out of
\* the loop
OnLocked_break(is_srv) == "shutdown"

\* start_streaming, except RuntimeError: the server calls __reconnect(True),
\* the client breaks out of the loop
OnLocked(is_srv) == IF is_srv THEN "rc_start" ELSE "shutdown"

\* __receive_heartbeat_and_validate, called from the loop of start_streaming
\* (ctx = "loop") or from __retry_send_heartbeat (ctx = "retry"), where every
\* exception, the RuntimeError of LOCKED included, makes the retry fail
ReceiveHeartbeat ==
    /\ pc = "hb_recv"
    /\ \E r \in Received :
        /\ peer_locked' = IF r = "locked" THEN TRUE ELSE peer_locked
        /\ last_recv' = Receipt(r)
        /\ CASE heartbeat_exception(r) = "none" ->
                /\ pc' = AfterReceive(is_server)
                /\ retry_resumed' = (~is_server /\ ctx = "retry")
                /\ UNCHANGED <<sd_ret, is_client_exit>>
          [] heartbeat_exception(r) = "RuntimeError" /\ ctx = "loop" ->
                /\ pc' = OnLocked(is_server)
                /\ IF OnLocked(is_server) = "rc_start"
                   THEN /\ is_client_exit' = TRUE
                        /\ UNCHANGED sd_ret
                   ELSE /\ sd_ret' = "final"
                        /\ UNCHANGED is_client_exit
                /\ UNCHANGED retry_resumed
          [] heartbeat_exception(r) \notin {"none", "RuntimeError"} /\ ctx = "loop" ->
                /\ pc' = "rc_start"
                /\ is_client_exit' = FALSE
                /\ UNCHANGED <<sd_ret, retry_resumed>>
          [] OTHER ->
                /\ pc' = "rc_cleanup"
                /\ UNCHANGED <<sd_ret, is_client_exit, retry_resumed>>
    /\ UNCHANGED <<settings, last_sent, config_sent, peer_version, playback,
                   control_port, pure, events,
                   stop_message_send, sockets, client_address,
                   ledger, ctx, attempt, data_plane, key_installed, exit_kind,
                   last_auth, last_dgram, locked_sent, reconnects, accepts>>

\* counting one more LOCKED on the wire
CountLocked(n) == IF n < MaxLocked THEN n + 1 ELSE n

\* __format_and_send_heartbeat: __stop_message_send after the message is formed
FormatFlag(flag, stop) == IF stop THEN TRUE ELSE flag

\* a heartbeat that carries the config sub-record of the handshake
heartbeat_message_with_config(stop) ==
    encode_server_config_to_json_bytes(TRUE, TRUE, "a2V5", "aXY=", 0, 0)

\* __format_and_send_heartbeat: the message formed
heartbeat_message(stop) ==
    IF stop
    THEN encode_message_to_json_bytes(response_message(LOCKED_MESSAGE),
                                      LOCKED_MESSAGE, None, None)
    ELSE encode_message_to_json_bytes(response_message(ACCEPTED_MESSAGE),
                                      ACCEPTED_MESSAGE, None, None)

\* __format_and_send_heartbeat: LOCKED when stop_util is set, else ACCEPTED
SendHeartbeat ==
    /\ pc = "hb_send"
    /\ stop_message_send' = FormatFlag(stop_message_send, stop_util)
    /\ \E ok \in BOOLEAN :
        /\ ok => CanSend(client_tcp_socket)
        /\ IF ok
           THEN /\ locked_sent' = IF stop_util THEN CountLocked(locked_sent)
                                               ELSE locked_sent
                /\ last_sent' = heartbeat_message(stop_util)
                /\ pc' = AfterSend(is_server)
                /\ retry_resumed' = (is_server /\ ctx = "retry")
                /\ UNCHANGED is_client_exit
           ELSE /\ UNCHANGED <<locked_sent, retry_resumed, last_sent>>
                /\ IF ctx = "loop"
                   THEN /\ pc' = "rc_start"
                        /\ is_client_exit' = FALSE
                   ELSE /\ pc' = "rc_cleanup"
                        /\ UNCHANGED is_client_exit
    /\ UNCHANGED <<settings, last_recv, config_sent, extra, pure, events, sockets,
                   client_address, ledger, ctx, sd_ret,
                   attempt, data_plane, key_installed, exit_kind, last_auth,
                   last_dgram, reconnects, accepts>>

(* ----------------------------- reconnect ------------------------------ *)

\* a pause hook that leaves the event as it is on the server as well
PauseStream_inherited(is_srv, gate) == gate

\* _print_pause_udp_listener_and_pause_stream: the server clears stop_stream,
\* the client inherits the empty body
PauseStream(is_srv, gate) == IF is_srv THEN FALSE ELSE gate

\* _print_udp_listener_and_start_stream: the server sets stop_stream,
\* the client inherits the empty body
StartStream(is_srv, gate) == IF is_srv THEN TRUE ELSE gate

\* __reconnect: the stream is paused; unless the peer said LOCKED, one
\* heartbeat round-trip, a new round, is retried in place
Reconnect ==
    /\ pc = "rc_start"
    /\ stop_stream' = PauseStream(is_server, stop_stream)
    /\ reconnects' = TRUE
    /\ retry_resumed' = FALSE
    /\ IF is_client_exit
       THEN /\ pc' = "rc_cleanup"
            /\ UNCHANGED ctx
       ELSE /\ pc' = FirstPhase(is_server)
            /\ ctx' = "retry"
    /\ last_sent' = NoJSON
    /\ last_recv' = NoReceipt
    /\ UNCHANGED <<settings, config_sent, extra, pure, stop_util, stop_message_send, sockets, client_address,
                   ledger, sd_ret, is_client_exit, attempt, data_plane, key_installed,
                   exit_kind, last_auth, last_dgram, locked_sent, accepts>>

\* __reconnect: _cleanup_tcp_socket, which ends the connection the last
\* messages went over; then the server waits in _established_connection
\* and the client goes on to _initialize_socket
ReconnectCleanup ==
    /\ pc = "rc_cleanup"
    /\ client_tcp_socket' \in cleanup_tcp_socket(client_tcp_socket)
    /\ last_sent' = NoJSON
    /\ last_recv' = NoReceipt
    /\ IF is_server
       THEN /\ pc' = "accept"
            /\ ctx' = "reconnect"
       ELSE /\ pc' = "rc_init"
            /\ UNCHANGED ctx
    /\ UNCHANGED <<settings, config_sent, extra, pure, events, stop_message_send,
                   udp_socket, server_tcp_socket,
                   client_udp_socket, client_address, ledger, sd_ret, is_client_exit,
                   attempt, data_plane, key_installed, exit_kind, history>>

\* __reconnect on the client: _initialize_socket makes new sockets; then
\* __perform_reconnect_attempts starts with attempt = 0
ReconnectInitSocket ==
    /\ pc = "rc_init"
    /\ client_tcp_socket' = "fresh"
    /\ client_udp_socket' = "open"
    /\ attempt' = 0
    /\ pc' = "rc_attempts"
    /\ UNCHANGED <<settings, wire, extra, pure, events, stop_message_send, udp_socket, server_tcp_socket,
                   client_address, ledger, ctx, sd_ret, is_client_exit, data_plane,
                   key_installed, exit_kind, history>>

\* __reconnect on the client: _initialize_socket raises (bind); __reconnect
\* re-raises it as Exception, which leaves start_streaming
ReconnectBindFails ==
    /\ pc = "rc_init"
    /\ client_tcp_socket' = "fresh"
    /\ client_udp_socket' = "open"
    /\ ExitCritical
    /\ UNCHANGED <<settings, wire, extra, pure, stop_message_send, udp_socket, server_tcp_socket,
                   client_address, ledger, ctx, sd_ret, is_client_exit, attempt,
                   data_plane, key_installed, history>>

\* __perform_reconnect_attempts: while not stop_util and attempt < R
MayAttempt(stop, n, R) == ~stop /\ n < R

\* __perform_reconnect_attempts: if attempt >= R after the loop
BudgetExhausted(n, R) == n >= R

\* __perform_reconnect_attempts: the loop head and the test after the loop
PerformReconnectAttempts ==
    /\ pc = "rc_attempts"
    /\ IF MayAttempt(stop_util, attempt, reconnect_attempt)
       THEN /\ pc' = "connect"
            /\ ctx' = "reconnect"
            /\ UNCHANGED sd_ret
       ELSE /\ ctx' = "reconnect"
            /\ IF BudgetExhausted(attempt, reconnect_attempt)
               THEN /\ pc' = "shutdown"
                    /\ sd_ret' = "perform"
               ELSE /\ pc' = "rc_after"
                    /\ UNCHANGED sd_ret
    /\ UNCHANGED <<settings, wire, extra, pure, events, stop_message_send, sockets, client_address,
                   ledger, is_client_exit, attempt, data_plane, key_installed,
                   exit_kind, history>>

\* __reconnect after the connection is re-established: start the stream
\* unless stop_util is set, else _shutdown()
ReconnectResume ==
    /\ pc = "rc_after"
    /\ IF ~stop_util
       THEN /\ stop_stream' = StartStream(is_server, stop_stream)
            /\ pc' = "hb_loop"
            /\ ctx' = "loop"
            /\ UNCHANGED sd_ret
       ELSE /\ pc' = "shutdown"
            /\ sd_ret' = "rc_after"
            /\ UNCHANGED <<stop_stream, ctx>>
    /\ UNCHANGED <<settings, wire, extra, pure, stop_util, stop_message_send, sockets, client_address,
                   ledger, is_client_exit, attempt, data_plane, key_installed,
                   exit_kind, history>>

(* ------------------------------ shutdown ------------------------------ *)

\* how an exception raised inside _shutdown reaches main(): at lines 206 and
\* 263 it is inside the try of __reconnect and is re-raised as Exception; at
\* lines 109 and 209 it propagates as it is
Escapes(site, fault) ==
    IF site \in {"rc_after", "perform"} THEN "Exception" ELSE fault

\* _shutdown, first half: LOCKED is sent unless __stop_message_send; then both
\* events are set.  A failing sendall raises before the events are set
ShutdownBegin ==
    /\ pc = "shutdown"
    /\ \E ok \in BOOLEAN :
        /\ ok => (stop_message_send \/ CanSend(client_tcp_socket))
        /\ ~ok => ~stop_message_send
        /\ IF ok
           THEN /\ locked_sent' = IF stop_message_send THEN locked_sent
                                                        ELSE CountLocked(locked_sent)
                /\ last_sent' = IF stop_message_send THEN last_sent
                                                      ELSE heartbeat_message(TRUE)
                /\ stop_util' = TRUE
                /\ stop_stream' = TRUE
                /\ pc' = "sd_close"
                /\ UNCHANGED exit_kind
           ELSE /\ UNCHANGED <<locked_sent, last_sent>>
                /\ IF Escapes(sd_ret, SocketFault(client_tcp_socket)) = "OSError"
                   THEN ExitLogged
                   ELSE ExitCritical
    /\ UNCHANGED <<settings, last_recv, config_sent, extra, pure, stop_message_send,
                   sockets, client_address, ledger, ctx,
                   sd_ret, is_client_exit, attempt, data_plane, key_installed,
                   last_auth, last_dgram, reconnects, accepts, retry_resumed>>

\* _shutdown, second half (after the sleep): _cleanup_tcp_socket,
\* _cleanup_udp_socket and, on the server, the listening socket; then the
\* return to the call site
ShutdownClose ==
    /\ pc = "sd_close"
    /\ client_tcp_socket' \in cleanup_tcp_socket(client_tcp_socket)
    /\ udp_socket' = "closed"
    /\ server_tcp_socket' = IF is_server THEN "closed" ELSE server_tcp_socket
    /\ CASE sd_ret = "final" ->
                /\ ExitNormal
                /\ UNCHANGED sd_ret
         [] sd_ret = "perform" ->
                /\ pc' = "shutdown"
                /\ sd_ret' = "rc_except"
                /\ UNCHANGED exit_kind
         [] OTHER ->
                /\ pc' = "hb_loop"
                /\ UNCHANGED <<sd_ret, exit_kind>>
    /\ UNCHANGED <<settings, wire, extra, pure, events, stop_message_send, client_udp_socket,
                   client_address, ledger, ctx, is_client_exit, attempt, data_plane,
                   key_installed, history>>

\* graceful_shutdown: SIGINT sets stop_util
Signal ==
    /\ pc # "exited"
    /\ ~stop_util
    /\ stop_util' = TRUE
    /\ UNCHANGED <<settings, wire, extra, pure, stop_stream, stop_message_send, sockets, client_address,
                   ledger, pc, ctx, sd_ret, is_client_exit, attempt, data_plane,
                   key_installed, exit_kind, history>>

(* ----------------------------- data plane ----------------------------- *)

\* encode_audio_and_send_to_client / receive_audio_and_decode:
\* while not stop_util; on exit the finally block cleans the sockets up
DataLoop ==
    /\ spc = "check"
    /\ IF stop_util
       THEN /\ spc' = "done"
            /\ client_tcp_socket' \in cleanup_tcp_socket(client_tcp_socket)
            /\ client_udp_socket' = IF is_server THEN client_udp_socket ELSE "closed"
       ELSE /\ spc' = "barrier"
            /\ UNCHANGED <<client_tcp_socket, client_udp_socket>>
    /\ UNCHANGED <<settings, wire, extra, pure, events, stop_message_send, udp_socket, server_tcp_socket,
                   client_address, ledger, pc, ctx, sd_ret, is_client_exit, attempt,
                   pending, key_installed, exit_kind, history>>

\* an event whose wait() consumes the flag
Wait_and_clear(gate) == FALSE

\* threading.Event.wait(): the flag is left as it is
Wait(gate) == gate

\* self._stop_stream_event.wait()
DataBarrier ==
    /\ spc = "barrier"
    /\ stop_stream
    /\ stop_stream' = Wait(stop_stream)
    /\ spc' = "io"
    /\ UNCHANGED <<settings, wire, extra, pure, stop_util, stop_message_send, sockets,
                   client_address, ledger, pc, ctx, sd_ret, is_client_exit, attempt,
                   pending, key_installed, exit_kind, history>>

\* the server reads a block and submits __send_stream_to_client; the client
\* receives a datagram and submits __decode_and_play
DataSubmit ==
    /\ spc = "io"
    /\ pending < MaxPending
    /\ pending' = pending + 1
    /\ spc' = "check"
    /\ UNCHANGED <<settings, wire, extra, pure, events, stop_message_send, sockets, client_address,
                   ledger, pc, ctx, sd_ret, is_client_exit, attempt, key_installed,
                   exit_kind, history>>

\* the client's recvfrom times out or raises: continue
DataTimeout ==
    /\ spc = "io"
    /\ ~is_server
    /\ spc' = "check"
    /\ UNCHANGED <<settings, wire, extra, pure, events, stop_message_send, sockets, client_address,
                   ledger, pc, ctx, sd_ret, is_client_exit, attempt, pending,
                   key_installed, exit_kind, history>>

\* an exception of a task reaches the thread that submitted it and ends the run
TaskFault_fatal(stop, raised) == stop \/ raised

\* ThreadPoolExecutor: an exception raised by a task is kept in its future,
\* which nobody reads; stop_util after the task
TaskFault(stop, raised) == stop

\* __decode_and_play: decrypt_aes_and_verify_data raises on a datagram that
\* fails decryption or the hash comparison, before stream.write is reached
decode_and_play(pb, valid) ==
    IF valid THEN [pb EXCEPT !.last = "played"]
             ELSE [last |-> "dropped", dropped |-> TRUE]

\* a pool thread runs one task: the server seals the block and sends it to
\* (_client_address, _udp_port); the client opens the datagram and plays it
WorkerRun ==
    /\ pending > 0
    /\ pending' = pending - 1
    /\ IF is_server
       THEN /\ IF udp_socket = "open" /\ client_address # "none"
               THEN last_dgram' =
                        [dst |-> client_address,
                         authed |-> last_auth.code = OK_MESSAGE /\ last_auth.sent]
               ELSE UNCHANGED last_dgram
            /\ UNCHANGED <<playback, stop_util>>
       ELSE /\ \E valid \in BOOLEAN :
                /\ playback' = decode_and_play(playback, valid)
                /\ stop_util' = TaskFault(stop_util, ~valid)
            /\ UNCHANGED last_dgram
    /\ UNCHANGED <<settings, wire, peer_version, peer_locked, control_port, pure,
                   stop_stream, stop_message_send, sockets, client_address,
                   ledger, pc, ctx, sd_ret, is_client_exit, attempt, spc,
                   key_installed, exit_kind, last_auth, locked_sent, reconnects,
                   accepts, retry_resumed>>

(* ------------------------------- Next --------------------------------- *)

Next ==
    \/ ServerInit
    \/ ServerBindFails
    \/ AcceptStopped
    \/ Accept
    \/ AuthGarbled
    \/ AuthRejected
    \/ AuthAccepted
    \/ ClientInit
    \/ ClientBindFails
    \/ ConnectInitial
    \/ ConnectRetry
    \/ ClientAuth
    \/ StartStreaming
    \/ HeartbeatLoop
    \/ ReceiveHeartbeat
    \/ SendHeartbeat
    \/ Reconnect
    \/ ReconnectCleanup
    \/ ReconnectInitSocket
    \/ ReconnectBindFails
    \/ PerformReconnectAttempts
    \/ ReconnectResume
    \/ ShutdownBegin
    \/ ShutdownClose
    \/ Signal
    \/ DataLoop
    \/ DataBarrier
    \/ DataSubmit
    \/ DataTimeout
    \/ WorkerRun

Spec == Init /\ [][Next]_vars

(* ------------------------------ claims -------------------------------- *)

\* the 200 response was sent on the connection now held in _client_tcp_socket
Authenticated == last_auth.code = OK_MESSAGE /\ last_auth.sent

\* the handshake of the current connection reached the checks of the message
Decided == last_auth.code \notin {0, 1}

\* C1: on the server every audio datagram is sent to a peer to which the 200
\* authentication-success response was sent on the current connection.
C1_NoDatagramBeforeAuthSuccess ==
    last_dgram.dst # "none" => last_dgram.authed

\* C2: once the initial handshake of the server has succeeded and the streamer
\* thread is started, stop_stream is set (the streamer passes its barrier
\* without a reconnect having to happen first).
C2_StreamerStartsRunning ==
    (is_server /\ spc # "off" /\ Authenticated /\ ~reconnects /\ ~stop_util)
        => stop_stream

\* C3: when __reconnect returns to the heartbeat loop because the in-place
\* heartbeat round-trip succeeded, stop_stream is set again.
C3_RetryResumesStream ==
    (is_server /\ pc = "hb_loop" /\ retry_resumed) => stop_stream

\* C4: with R = 0 the reconnect logic never gives up: it does not enter the
\* shutdown sequence from __perform_reconnect_attempts on its own account.
C4_UnlimitedNeverGivesUp ==
    ~(reconnect_attempt = 0 /\ pc = "shutdown" /\ sd_ret = "perform" /\ ~stop_util)

\* C5: when the process ends after the shutdown sequence was entered, both
\* events are set and the TCP control socket and the UDP socket are closed.
C5_ShutdownCompletes ==
    (pc = "exited" /\ sd_ret # "none")
        => /\ stop_util
           /\ stop_stream
           /\ client_tcp_socket \in {"none", "closed"}
           /\ udp_socket = "closed"

\* C6: a side sends LOCKED at most once.
C6_LockedAtMostOnce ==
    locked_sent <= 1

\* C7: for every entry of the ban ledger, banned holds exactly when R > 0 and
\* the consecutive failures have reached R.
C7_BannedIffBudgetReached ==
    \A ip \in IPs :
        ban_list[ip] # NoEntry =>
            (ban_list[ip].is_banned <=>
                (reconnect_attempt > 0
                 /\ ban_list[ip].failed_connect_attempts >= reconnect_attempt))

\* C7 witness: a peer that had authenticated before is banned by the wrong
\* password it has just sent.
C7_Witness ==
    /\ client_address # "none"
    /\ last_auth.code = UNAUTHORIZED_MESSAGE
    /\ ~last_auth.was_banned
    /\ ban_list[client_address].is_banned
    /\ ban_list[client_address].success_connect_attempts > 0

C9_SuccessOnlyWith200Sent ==
    [][\A ip \in IPs :
          (/\ ban_list[ip] # NoEntry
           /\ ban_list'[ip].success_connect_attempts
                  > ban_list[ip].success_connect_attempts)
              => (last_auth'.code = OK_MESSAGE /\ last_auth'.sent)]_vars

\* C10: stop_util is never cleared, and when the process has ended after the
\* heartbeat loop was left, stop_util is set.
C10_StopUtilMonotonicAndTerminal ==
    /\ [][stop_util => stop_util']_vars
    /\ [](pc = "exited" /\ sd_ret = "final" => stop_util)

\* the steps of __reconnect that wait for nothing: the pause hook and the
\* teardown of the control socket
FairSpec == Spec /\ WF_vars(Reconnect) /\ WF_vars(ReconnectCleanup)

\* C11: no step of the streamer loop, of the receiver loop or of a pool task
\* changes stop_stream.
C11_DataPlaneKeepsGate ==
    [][(DataLoop \/ DataBarrier \/ DataSubmit \/ DataTimeout \/ WorkerRun)
           => stop_stream' = stop_stream]_vars

\* C11 witness: the loop has passed the open gate and a task has run while
\* the session is alive.
C11_Witness ==
    /\ stop_stream
    /\ ~stop_util
    /\ spc = "io"
    /\ (last_dgram.dst # "none" \/ playback.last # "none")

\* C12: a client that has received LOCKED does not reconnect: it is in the
\* shutdown sequence or has ended, and when it has ended stop_util is set and
\* the TCP and UDP sockets are closed.
C12_ClientExitsOnLocked ==
    (~is_server /\ peer_locked)
        => /\ pc \in {"shutdown", "sd_close", "exited"}
           /\ pc = "exited" => /\ stop_util
                               /\ client_tcp_socket = "closed"
                               /\ udp_socket = "closed"

\* C13: a server that has received LOCKED does not shut down unless it is told
\* to stop: it goes through the pause and the teardown of the control socket,
\* without a heartbeat retry, to accept, where the stream is paused and the
\* socket torn down; and from __reconnect(True) it always arrives at accept.
C13_ServerReacceptsOnLocked ==
    /\ []((is_server /\ peer_locked /\ ~stop_util)
             => /\ pc \in {"rc_start", "rc_cleanup", "accept"}
                /\ pc \in {"rc_cleanup", "accept"} => ~stop_stream
                /\ pc = "accept" => client_tcp_socket \in {"closed", "dead"})
    /\ ((is_server /\ peer_locked /\ pc = "rc_start") ~> (pc = "accept"))

\* C13 witness: after LOCKED in the heartbeat loop the server waits in accept.
C13_Witness ==
    /\ is_server
    /\ peer_locked
    /\ is_client_exit
    /\ pc = "accept"
    /\ ~stop_util
    /\ ~stop_stream
    /\ client_tcp_socket = "closed"

\* C14: once stop_util is set and the transport has ended, the streamer or
\* receiver is not left blocked at the stop_stream barrier.
C14_StreamerReleasedOnStop ==
    ~(stop_util /\ pc = "exited" /\ spc = "barrier" /\ ~stop_stream)

\* C15: a handshake the server answers 200 came from a client of the server's
\* comparability version; a client that has read a reply of another version
\* has stop_util set, and that handshake installs no key.
C15_VersionsAgree ==
    /\ []((is_server /\ last_auth.code = OK_MESSAGE)
             => peer_version = util_comparability_version)
    /\ []((~is_server /\ peer_version \notin {0, util_comparability_version})
             => stop_util)
    /\ [][(pc = "cauth" /\ peer_version' \notin {0, util_comparability_version})
             => key_installed' = key_installed]_vars

\* C15 witness: the client has read a 200-or-other reply of a server of
\* another version and has not installed a key.
C15_Witness ==
    /\ ~is_server
    /\ peer_version \notin {0, util_comparability_version}
    /\ ~key_installed
    /\ pc = "start"

C19_ControlPortIsPMinusOne ==
    control_port # 0 => control_port = udp_port - 1

\* C20: a pool task of the client whose datagram fails decryption or the
\* integrity check plays nothing and changes neither stop_util nor
\* stop_stream nor the position of the transport or of the receiver loop.
C20_BadDatagramDropped ==
    [][(~is_server /\ pending' < pending /\ playback'.last = "dropped")
           => UNCHANGED <<stop_util, stop_stream, pc, ctx, spc, reconnects,
                          sockets>>]_vars

\* C20 witness: a valid datagram is played after an earlier one was dropped,
\* with the session alive.
C20_Witness ==
    /\ ~is_server
    /\ playback.last = "played"
    /\ playback.dropped
    /\ ~stop_util
    /\ stop_stream
    /\ pc = "hb_loop"

(* ------------------- the AES / hash pipeline (frames) ------------------ *)

\* longest frame taken through the pipeline
MaxFrameLen == 3

\* the byte values the frames are made of
SampleBytes == {0, 255}

\* the session keys tried (one byte stands for the 32 of the key)
SampleKeys == {1, 200}

\* the IV byte (one byte stands for the 16 of the IV)
SampleIV == 7

\* hashlib.sha256().digest(): 32 bytes
DigestLen == 32

\* sym_padding.PKCS7(128) and the AES block: 128 bits
BlockBits == 128

BlockLen == BlockBits \div 8

Frames == UNION {[1..n -> SampleBytes] : n \in 0..MaxFrameLen}

Raised == [ok |-> FALSE, data |-> <<>>]

Returned(data) == [ok |-> TRUE, data |-> data]

RECURSIVE SumBytes(_)
SumBytes(data) ==
    IF data = <<>> THEN 0 ELSE Head(data) + SumBytes(Tail(data))

\* hashlib.sha256: a digest of DigestLen bytes that depends on every byte of
\* the data and on its length
sha256(data) ==
    [i \in 1..DigestLen |-> (31 * SumBytes(data) + 17 * Len(data) + i) % 256]

\* CryptoManager.__calculate_hash_to_data
calculate_hash_to_data(data) == sha256(data) \o data

\* CryptoManager.__compare_hash_and_get_data
compare_hash_and_get_data(message) ==
    LET cut == IF Len(message) < DigestLen THEN Len(message) ELSE DigestLen
        received_hash == SubSeq(message, 1, cut)
        data == SubSeq(message, cut + 1, Len(message))
    IN IF received_hash # sha256(data) THEN Raised ELSE Returned(data)

\* PKCS7 padder: n bytes of value n, 1 <= n <= BlockLen
pkcs7_pad(data) ==
    LET n == BlockLen - (Len(data) % BlockLen)
    IN data \o [i \in 1..n |-> n]

\* PKCS7 unpadder: the last byte names the length of the padding, which is checked
pkcs7_unpad(padded) ==
    IF Len(padded) = 0 \/ Len(padded) % BlockLen # 0 THEN Raised
    ELSE LET n == padded[Len(padded)]
         IN IF n < 1 \/ n > BlockLen THEN Raised
            ELSE IF \E i \in (Len(padded) - n + 1)..Len(padded) : padded[i] # n
                 THEN Raised
                 ELSE Returned(SubSeq(padded, 1, Len(padded) - n))

\* the block cipher under a key: a keyed permutation of the blocks
aes_block(block, key) == [j \in 1..BlockLen |-> (block[j] + key) % 256]

aes_block_inverse(block, key) == [j \in 1..BlockLen |-> (block[j] - key) % 256]

\* the combination of a block with the previous cipher block, and its inverse
chain(block, prev) == [j \in 1..BlockLen |-> (block[j] + prev[j]) % 256]

unchain(block, prev) == [j \in 1..BlockLen |-> (block[j] - prev[j]) % 256]

\* modes.CBC encryptor: each block is combined with the previous cipher block
\* (the IV for the first) and then enciphered
RECURSIVE cbc_encrypt(_, _, _)
cbc_encrypt(padded, prev, key) ==
    IF padded = <<>> THEN <<>>
    ELSE LET c == aes_block(chain(SubSeq(padded, 1, BlockLen), prev), key)
         IN c \o cbc_encrypt(SubSeq(padded, BlockLen + 1, Len(padded)), c, key)

\* modes.CBC decryptor
RECURSIVE cbc_decrypt(_, _, _)
cbc_decrypt(encrypted, prev, key) ==
    IF encrypted = <<>> THEN <<>>
    ELSE LET c == SubSeq(encrypted, 1, BlockLen)
         IN unchain(aes_block_inverse(c, key), prev)
                \o cbc_decrypt(SubSeq(encrypted, BlockLen + 1, Len(encrypted)), c, key)

iv_block(iv) == [j \in 1..BlockLen |-> iv]

\* CryptoManager.__encrypt_data_aes
encrypt_data_aes(data, key, iv) ==
    cbc_encrypt(pkcs7_pad(data), iv_block(iv), key)

\* CryptoManager.__decrypt_data_aes: finalize() raises on a length that is
\* no multiple of the block, the unpadder on a bad padding
decrypt_data_aes(encrypted, key, iv) ==
    IF Len(encrypted) % BlockLen # 0 THEN Raised
    ELSE pkcs7_unpad(cbc_decrypt(encrypted, iv_block(iv), key))

\* sealing with the encryption applied before the hash prefix
encrypt_aes_and_sign_data_encrypt_first(data, cm) ==
    LET enc == IF cm.is_ssl THEN encrypt_data_aes(data, cm.aes_key, cm.aes_iv)
                            ELSE data
    IN IF cm.is_integrity_control THEN calculate_hash_to_data(enc) ELSE enc

\* CryptoManager.encrypt_aes_and_sign_data
encrypt_aes_and_sign_data(data, cm) ==
    LET signed == IF cm.is_integrity_control THEN calculate_hash_to_data(data)
                                             ELSE data
    IN IF cm.is_ssl THEN encrypt_data_aes(signed, cm.aes_key, cm.aes_iv)
                    ELSE signed

\* CryptoManager.decrypt_aes_and_verify_data
decrypt_aes_and_verify_data(data, cm) ==
    LET decrypted == IF cm.is_ssl THEN decrypt_data_aes(data, cm.aes_key, cm.aes_iv)
                                  ELSE Returned(data)
    IN IF ~decrypted.ok THEN Raised
       ELSE IF cm.is_integrity_control
            THEN compare_hash_and_get_data(decrypted.data)
            ELSE decrypted

\* the CryptoManager state both sides hold after the handshake
CryptoManagers ==
    [is_ssl : BOOLEAN, is_integrity_control : BOOLEAN,
     aes_key : SampleKeys, aes_iv : {SampleIV}]

\* every variable of the transport, which the pipeline does not touch
program == <<settings, events, stop_message_send, sockets, client_address, ledger,
             pc, ctx, sd_ret, is_client_exit, attempt, data_plane, key_installed,
             exit_kind, history, extra, wire>>

ProgramIdle ==
    /\ InitProgram
    /\ is_server
    /\ reconnect_attempt = 0
    /\ ban_list_file = {}

InitCrypto ==
    /\ ProgramIdle
    /\ codec = NoMessage
    /\ crypto \in [stage : {"plain"}, data : Frames, cm : CryptoManagers,
                   sealed : {<<>>}, opened : {Raised}]

\* the sender seals the frame
SealFrame ==
    /\ crypto.stage = "plain"
    /\ crypto' = [crypto EXCEPT !.stage = "sealed",
                                !.sealed = encrypt_aes_and_sign_data(crypto.data,
                                                                     crypto.cm)]
    /\ UNCHANGED <<program, codec>>

\* the receiver opens what the sender sealed
OpenFrame ==
    /\ crypto.stage = "sealed"
    /\ crypto' = [crypto EXCEPT !.stage = "opened",
                                !.opened = decrypt_aes_and_verify_data(crypto.sealed,
                                                                       crypto.cm)]
    /\ UNCHANGED <<program, codec>>

NextCrypto ==
    \/ SealFrame
    \/ OpenFrame

SpecCrypto == InitCrypto /\ [][NextCrypto]_vars

\* C16: for every frame and every combination of the two flags, opening the
\* sealed frame with the same key, IV and flags returns the frame; with both
\* flags on the hash prefix is inside the ciphertext (hash first, encryption
\* second; decryption first, verification second).
C16_SealOpenRoundTrip ==
    /\ crypto.stage = "opened" => crypto.opened = Returned(crypto.data)
    /\ (crypto.stage \in {"sealed", "opened"}
        /\ crypto.cm.is_ssl /\ crypto.cm.is_integrity_control)
           => decrypt_data_aes(crypto.sealed, crypto.cm.aes_key, crypto.cm.aes_iv)
                  = Returned(sha256(crypto.data) \o crypto.data)

\* C16 witness: a frame of the greatest length went through hashing and
\* encryption and came back.
C16_Witness ==
    /\ crypto.stage = "opened"
    /\ crypto.cm.is_ssl
    /\ crypto.cm.is_integrity_control
    /\ Len(crypto.data) = MaxFrameLen
    /\ crypto.sealed # crypto.data
    /\ Len(crypto.sealed) = 3 * BlockLen
    /\ crypto.opened.ok

(* -------------------- the codec taken on its own --------------------- *)

InitCodec ==
    /\ ProgramIdle
    /\ crypto = NoFrame
    /\ codec \in [stage : {"message"}, m : ControlMessages,
                  json : {NoJSON}, decoded : {NotDecoded}]

\* the sender encodes the message
EncodeMessage ==
    /\ codec.stage = "message"
    /\ codec' = [codec EXCEPT !.stage = "encoded", !.json = encode(codec.m)]
    /\ UNCHANGED <<program, crypto>>

\* the receiver decodes the bytes
DecodeMessage ==
    /\ codec.stage = "encoded"
    /\ codec' = [codec EXCEPT !.stage = "decoded",
                              !.decoded = decode(codec.json, codec.m.config.has)]
    /\ UNCHANGED <<program, crypto>>

NextCodec ==
    \/ EncodeMessage
    \/ DecodeMessage

SpecCodec == InitCodec /\ [][NextCodec]_vars

\* C17: decoding the encoding of a control message gives the message back:
\* label, code, failed_connections, reconnect_attempts (0 included) and the
\* config sub-record.
C17_CodecRoundTrip ==
    codec.stage = "decoded" =>
        /\ codec.decoded.ok
        /\ codec.decoded.message = codec.m.message
        /\ codec.decoded.response_code = codec.m.response_code
        /\ codec.decoded.version = codec.m.version
        /\ codec.decoded.failed_connections = codec.m.failed_connections
        /\ codec.decoded.reconnect_attempts = codec.m.reconnect_attempts
        /\ codec.decoded.config = codec.m.config

(* -------------------- claims on the handshake and the wire ------------- *)

\* the step puts a message with the config sub-record on the wire
SendsConfig == last_sent' # last_sent /\ last_sent'.config.has

\* C21: the config sub-record is carried only by the 200 response of the
\* server, and the peer it was last sent to is sent no second one, whatever
\* reconnections follow.
C21_ConfigOncePerSession ==
    /\ [](last_sent.config.has
             => (is_server /\ last_sent.response_code = OK_MESSAGE))
    /\ [][client_address' = config_sent => ~SendsConfig]_vars

\* C21 (as the code has it): the config sub-record is carried only by the
\* 200 response of the server, and it is sent exactly in the steps that send
\* that response: once per successful handshake, the handshakes re-run after
\* a reconnection included; no heartbeat, error reply or LOCKED carries it.
C21_ConfigOncePerHandshake ==
    /\ [](last_sent.config.has
             => (is_server /\ last_sent.response_code = OK_MESSAGE /\ Authenticated))
    /\ [][SendsConfig <=> (pc = "auth" /\ last_auth'.code = OK_MESSAGE
                                       /\ last_auth'.sent)]_vars

\* C21 witness: after a reconnection the server has sent the config
\* sub-record again, in the 200 response of the second handshake.
C21_Witness ==
    /\ is_server
    /\ reconnects
    /\ accepts >= 2
    /\ config_sent = client_address
    /\ Authenticated
    /\ last_sent.config.has
    /\ last_sent.response_code = OK_MESSAGE

\* C22: the reply of the server is the code of the first failing check in the
\* order password (401), version (409), ban (403).
C22_PasswordVersionBan ==
    Decided =>
        last_auth.code = IF ~last_auth.pw_ok THEN UNAUTHORIZED_MESSAGE
                         ELSE IF ~last_auth.ver_ok THEN CONFLICT_MESSAGE
                         ELSE IF last_auth.was_banned THEN FORBIDDEN_MESSAGE
                         ELSE OK_MESSAGE

\* C22 (as the code has it): the reply of the server is the code of the first
\* failing check in the order ban (403), password (401), version (409).
C22_BanPasswordVersion ==
    Decided =>
        last_auth.code = IF last_auth.was_banned THEN FORBIDDEN_MESSAGE
                         ELSE IF ~last_auth.pw_ok THEN UNAUTHORIZED_MESSAGE
                         ELSE IF ~last_auth.ver_ok THEN CONFLICT_MESSAGE
                         ELSE OK_MESSAGE

\* C22 witness: a banned peer with a wrong password and another version was
\* answered 403, and a peer that is not banned, with a wrong password and
\* another version, would be answered 401.
C22_Witness ==
    /\ Decided
    /\ last_auth.was_banned
    /\ ~last_auth.pw_ok
    /\ ~last_auth.ver_ok
    /\ last_auth.sent
    /\ last_auth.code = FORBIDDEN_MESSAGE
    /\ last_sent.response_code = FORBIDDEN_MESSAGE

\* C23: every handshake of a peer that is not banned which ends without
\* success adds one to the consecutive and to the total failures of the peer.
C23_EveryFailureCounted ==
    [][(is_server /\ pc = "auth" /\ pc' = "accept"
        /\ ~is_banned(ban_list, client_address))
          => /\ ban_list'[client_address].failed_connect_attempts
                  = ban_list[client_address].failed_connect_attempts + 1
             /\ ban_list'[client_address].all_failed_connect_attempts
                  = ban_list[client_address].all_failed_connect_attempts + 1]_vars

\* C24: the server sends its heartbeat only on receiving a valid one, and
\* that ends its round; the client receives only on having sent; a client
\* waiting in receive has its heartbeat of the round on the wire.
C24_ServerRespondsLast ==
    /\ [][(is_server /\ pc # "hb_send" /\ pc' = "hb_send")
             => (pc = "hb_recv" /\ last_recv'.code = ACCEPTED_MESSAGE)]_vars
    /\ [][(is_server /\ pc = "hb_send" /\ pc' # pc) => pc' # "hb_recv"]_vars
    /\ [][(is_server /\ pc # "hb_recv" /\ pc' = "hb_recv")
             => pc \in {"hb_loop", "rc_start"}]_vars
    /\ [][(~is_server /\ pc # "hb_recv" /\ pc' = "hb_recv")
             => (pc = "hb_send" /\ last_sent' = heartbeat_message(stop_util))]_vars
    /\ [][(~is_server /\ pc # "hb_send" /\ pc' = "hb_send")
             => pc \in {"hb_loop", "rc_start"}]_vars
    /\ []((~is_server /\ pc = "hb_recv")
             => last_sent.response_code \in {ACCEPTED_MESSAGE, LOCKED_MESSAGE})

\* C24 witness: the server has finished a round, having received the
\* heartbeat of the client and then sent its own.
C24_Witness ==
    /\ is_server
    /\ pc = "hb_loop"
    /\ ~stop_util
    /\ ~reconnects
    /\ last_recv = Receipt("accepted")
    /\ last_sent = heartbeat_message(FALSE)

\* C25: a heartbeat or shutdown message sent while stop_util is set is
\* LOCKED, and a side that has sent LOCKED in a heartbeat goes on to the
\* shutdown sequence (the client after the reply of that round), not into
\* __reconnect.
C25_LockedThenShutdown ==
    /\ [][(stop_util /\ pc \in {"hb_send", "shutdown"} /\ last_sent' # last_sent)
             => last_sent'.response_code = LOCKED_MESSAGE]_vars
    /\ [](last_sent.response_code = LOCKED_MESSAGE
             => pc \in {"hb_loop", "hb_recv", "shutdown", "sd_close", "exited"})

\* C26: a read of a heartbeat that gives neither ACCEPTED nor LOCKED (empty
\* read, failed decryption or hash, undecodable message, another code, error
\* or timeout of recv) leads into __reconnect or on to its teardown, and does
\* not change stop_util.
C26_FaultEntersReconnect ==
    [][(pc = "hb_recv" /\ pc' # pc
        /\ last_recv'.code \notin {ACCEPTED_MESSAGE, LOCKED_MESSAGE})
          => /\ pc' = IF ctx = "loop" THEN "rc_start" ELSE "rc_cleanup"
             /\ ctx = "loop" => ~is_client_exit'
             /\ stop_util' = stop_util
             /\ UNCHANGED <<stop_stream, sockets>>]_vars

\* C26 witness: __reconnect was entered from the loop on a failed read, with
\* the session alive.
C26_Witness ==
    /\ pc = "rc_start"
    /\ ~is_client_exit
    /\ last_recv.kind = "heartbeat"
    /\ last_recv.code = 0
    /\ ~stop_util
    /\ client_tcp_socket = "open"

\* C27: a client with R > 0 enters the shutdown of
\* __perform_reconnect_attempts with exactly R failed attempts; an attempt
\* that fails in the handshake for want of a reply, when it is not the R-th,
\* does not end the session; and after a successful attempt the loop goes on.
C27_GivesUpExactlyAfterR ==
    /\ []((~is_server /\ reconnect_attempt > 0 /\ pc = "shutdown"
           /\ sd_ret = "perform") => attempt = reconnect_attempt)
    /\ [][(~is_server /\ reconnect_attempt > 0 /\ ctx = "reconnect"
           /\ pc = "cauth" /\ pc' # pc /\ ~stop_util
           /\ last_recv'.code = 0 /\ attempt + 1 < reconnect_attempt)
             => ~stop_util']_vars
    /\ [][(~is_server /\ pc = "rc_after" /\ pc' # pc /\ ~stop_util)
             => pc' = "hb_loop"]_vars

\* C28: a connection of a banned peer goes to the handshake exactly when the
\* flag of the peer is set, and the query clears it; the flag is set again only
\* by a successful authentication; a peer has it set when it becomes banned;
\* and the handshake of a banned peer is answered 403.
C28_FirstTimeReadOnce ==
    /\ [][\A ip \in IPs :
            (accepts' # accepts /\ client_address' = ip /\ is_banned(ban_list, ip))
              => /\ ~ban_list'[ip].is_first_time_message
                 /\ (pc' = "auth") = ban_list[ip].is_first_time_message
                 /\ (pc' = "accept") = ~ban_list[ip].is_first_time_message]_vars
    /\ [][\A ip \in IPs :
            (/\ ban_list[ip] # NoEntry
             /\ ~ban_list[ip].is_first_time_message
             /\ ban_list'[ip].is_first_time_message)
              => ban_list'[ip].success_connect_attempts
                     = ban_list[ip].success_connect_attempts + 1]_vars
    /\ [][\A ip \in IPs :
            (ban_list[ip] # NoEntry /\ ~is_banned(ban_list, ip)
             /\ is_banned(ban_list', ip))
              => ban_list'[ip].is_first_time_message]_vars
    /\ []((Decided /\ last_auth.was_banned) => last_auth.code = FORBIDDEN_MESSAGE)

\* C28 witness: a later connection of a banned peer, whose flag was read
\* before, has just been accepted and rejected before the handshake.
C28_Witness ==
    /\ is_server
    /\ pc = "accept"
    /\ client_address # "none"
    /\ last_auth = NoAuth
    /\ last_sent = NoJSON
    /\ client_tcp_socket = "open"
    /\ accepts >= 2
    /\ ban_list[client_address].is_banned
    /\ ~ban_list[client_address].is_first_time_message

\* C29: when the server goes back to accept from a connection it has
\* rejected, before or in the handshake, the socket of that connection is
\* closed.
C29_RejectedConnectionClosed ==
    [][(is_server /\ pc' = "accept" /\ (pc = "auth" \/ accepts' # accepts))
          => client_tcp_socket' = "closed"]_vars

\* C30: a handshake of the client that is not answered 200 with the config
\* sub-record installs no key and sets stop_util, and after it the client
\* takes no datagram for decoding.
C30_RefusedHandshakeIsFatal ==
    /\ [][(pc = "cauth" /\ pc' # pc
           /\ ~(last_recv'.code = OK_MESSAGE /\ last_recv'.config))
             => (stop_util' /\ key_installed' = key_installed)]_vars
    /\ [][(~is_server /\ last_recv.kind = "handshake"
           /\ ~(last_recv.code = OK_MESSAGE /\ last_recv.config))
             => pending' <= pending]_vars

(* ---------------- claims on the data plane and the ledger -------------- *)

\* C31: the client receiver submits no datagram unless a session key is
\* installed and no handshake of a connection is in progress: every submitted
\* datagram comes after the key, IV and flags of the current connection were
\* installed.
C31_NoSubmitBeforeCurrentKey ==
    [][(~is_server /\ pending' > pending)
          => (key_installed /\ pc # "cauth")]_vars

\* C31 (as the code has it): the client receiver submits no datagram before
\* the session key of a first handshake is installed, and it is not started
\* before that, whatever the state of the UDP socket; while a handshake is in
\* progress stop_stream is clear, so only a receive that passed the barrier
\* before can still deliver a datagram, under the key installed earlier; and a
\* datagram that does not open is dropped by its task.
C31_NoSubmitBeforeFirstKey ==
    /\ [][(~is_server /\ pending' > pending) => key_installed]_vars
    /\ []((~is_server /\ ~key_installed)
             => (spc \in {"off", "check", "done"} /\ pending = 0))
    /\ []((~is_server /\ pc = "cauth") => ~stop_stream)
    /\ [][(~is_server /\ pc = "cauth" /\ spc' # spc) => spc # "barrier"]_vars
    /\ [][(~is_server /\ pending' < pending /\ playback'.last = "dropped")
             => (playback'.dropped /\ UNCHANGED <<events, spc, pc, sockets>>)]_vars

\* C31 witness: during the handshake of a reconnection the receiver, which
\* holds the key of the earlier handshake, waits at the barrier with the UDP
\* socket bound.
C31_Witness ==
    /\ ~is_server
    /\ pc = "cauth"
    /\ ctx = "reconnect"
    /\ key_installed
    /\ spc = "barrier"
    /\ ~stop_stream
    /\ ~stop_util
    /\ client_udp_socket = "open"

\* C32: when the UDP socket of the transport or the data socket of the client
\* is closed, no submitted task is waiting or running, and no task of the
\* server runs with the UDP socket closed.
C32_PoolDrainedBeforeClose ==
    /\ [][(udp_socket # "closed" /\ udp_socket' = "closed") => pending = 0]_vars
    /\ [][(client_udp_socket # "closed" /\ client_udp_socket' = "closed")
             => pending = 0]_vars
    /\ [][(is_server /\ pending' < pending) => udp_socket = "open"]_vars


\* C33: the step in which a handshake passes every check leaves the entry of
\* the peer not banned with no consecutive failure and one more success, and
\* changes neither its total of failures nor the entry of any other peer.
C33_SuccessEffect ==
    [][(pc = "auth" /\ last_auth.code # OK_MESSAGE /\ last_auth'.code = OK_MESSAGE)
          => LET before == ban_list[client_address]
                 after == ban_list'[client_address]
             IN /\ after.is_banned = FALSE
                /\ after.failed_connect_attempts = 0
                /\ after.success_connect_attempts = before.success_connect_attempts + 1
                /\ after.all_failed_connect_attempts = before.all_failed_connect_attempts
                /\ \A ip \in IPs \ {client_address} : ban_list'[ip] = ban_list[ip]]_vars

\* C33 witness: a peer that failed before has just been authenticated, while
\* the other peer has an entry with a failure of its own.
C33_Witness ==
    /\ is_server /\ last_auth.code = OK_MESSAGE /\ last_auth.failed_before >= 1
    /\ ban_list[client_address].success_connect_attempts = 1
    /\ ban_list[client_address].failed_connect_attempts = 0
    /\ ban_list[client_address].all_failed_connect_attempts >= 1
    /\ \E ip \in IPs \ {client_address} :
          ban_list[ip] # NoEntry /\ ban_list[ip].failed_connect_attempts >= 1


\* C34: a banned peer stays banned for the rest of the run: no step lifts a
\* ban, the handshake of a banned peer is never answered 200, and no success
\* is counted for it.
C34_BanIsPermanent ==
    /\ [][\A ip \in IPs : is_banned(ban_list, ip) => is_banned(ban_list', ip)]_vars
    /\ [][(pc = "auth" /\ is_banned(ban_list, client_address))
             => /\ last_auth'.code # OK_MESSAGE
                /\ last_sent'.response_code # OK_MESSAGE
                /\ ban_list'[client_address].success_connect_attempts
                      = ban_list[client_address].success_connect_attempts]_vars

\* C34 witness: a peer that was authenticated earlier in this run and banned
\* later has connected again with the right password and version, and was
\* answered 403.
C34_Witness ==
    /\ is_server /\ client_address \in IPs
    /\ is_banned(ban_list, client_address)
    /\ last_auth.code = FORBIDDEN_MESSAGE /\ last_auth.sent
    /\ last_auth.pw_ok /\ last_auth.ver_ok /\ last_auth.was_banned
    /\ ban_list[client_address].success_connect_attempts = 1


\* C35: with R > 0 every entry of the ledger has between 0 and R consecutive
\* failures, no more consecutive failures than failures in total, and a
\* number of successes that is not negative; a failure applied to a banned
\* entry changes neither count, and no step changes the counts of a banned peer.
C35_CounterBounds ==
    /\ [](reconnect_attempt > 0 =>
            \A ip \in IPs : ban_list[ip] # NoEntry =>
                LET c == ban_list[ip]
                    d == fail_connect_attempt(c, reconnect_attempt)
                IN /\ 0 <= c.failed_connect_attempts
                   /\ c.failed_connect_attempts <= reconnect_attempt
                   /\ c.success_connect_attempts >= 0
                   /\ c.failed_connect_attempts <= c.all_failed_connect_attempts
                   /\ c.is_banned =>
                        /\ d.failed_connect_attempts = c.failed_connect_attempts
                        /\ d.all_failed_connect_attempts = c.all_failed_connect_attempts)
    /\ [][\A ip \in IPs : is_banned(ban_list, ip) =>
            /\ ban_list'[ip].failed_connect_attempts = ban_list[ip].failed_connect_attempts
            /\ ban_list'[ip].all_failed_connect_attempts
                  = ban_list[ip].all_failed_connect_attempts]_vars

\* C35 witness: a peer that was authenticated once and then banned by its
\* failures has failed a further handshake with a wrong password, and its
\* counts are where the ban left them.
C35_Witness ==
    /\ is_server /\ client_address \in IPs /\ reconnect_attempt > 0
    /\ is_banned(ban_list, client_address)
    /\ last_auth.code = FORBIDDEN_MESSAGE /\ last_auth.was_banned /\ ~last_auth.pw_ok
    /\ ban_list[client_address].success_connect_attempts = 1
    /\ ban_list[client_address].failed_connect_attempts = reconnect_attempt
    /\ ban_list[client_address].all_failed_connect_attempts = reconnect_attempt


\* C36: wherever the control thread is about to send or receive on the TCP
\* control socket (handshake, heartbeat, the LOCKED message of _shutdown) the
\* socket has been accepted or connected and has not been closed.
C36_NoIoOnAbsentSocket ==
    /\ (pc = "shutdown" /\ ~stop_message_send)
          => client_tcp_socket \notin {"none", "fresh", "closed"}
    /\ pc \in {"auth", "cauth", "hb_recv", "hb_send"}
          => client_tcp_socket \notin {"none", "fresh", "closed"}


\* C37: every datagram the server sends goes to the peer whose handshake was
\* the last one to succeed (the peer the configuration was last sent to).
C37_DatagramToLastAuthenticated ==
    [][(is_server /\ pending' < pending /\ udp_socket = "open")
          => (client_address # "none" /\ client_address = config_sent)]_vars


\* C38: stop_stream goes from clear to set only in a step that ends a
\* handshake of the current connection answered 200 or follows one (the
\* resume of the server after its reconnect), or in a terminal step that
\* leaves stop_util set on the way through the shutdown sequence; and it is
\* never set where stop_util stays clear and the session is not authenticated.
C38_ResumeOnlyAfterSuccessOrShutdown ==
    [][(~stop_stream /\ stop_stream')
          => \/ is_server /\ pc = "rc_after" /\ Authenticated
             \/ ~is_server /\ pc = "cauth" /\ last_recv'.code = OK_MESSAGE
             \/ pc = "shutdown" /\ stop_util'
             \/ pc' = "exited" /\ stop_util']_vars


\* C39: the reconnect of the server starts by clearing stop_stream; the
\* streamer passes its barrier only while stop_stream is set, and it submits
\* a frame only from behind the barrier and then returns to its loop test.
\* So while stop_stream stays clear the streamer submits at most the one
\* frame whose barrier check came before the pause, and then stays at the
\* barrier.
C39_PauseHoldsStreamer ==
    /\ [][(is_server /\ pc = "rc_start" /\ pc' # "rc_start") => ~stop_stream']_vars
    /\ [][(is_server /\ spc # "io" /\ spc' = "io") => (spc = "barrier" /\ stop_stream)]_vars
    /\ [][(is_server /\ pending' > pending) => (spc = "io" /\ spc' = "check")]_vars
    /\ [][(is_server /\ ~stop_stream /\ spc = "barrier") => spc' = "barrier"]_vars

\* C39 witness: during a reconnect of the server, with stop_stream clear and
\* stop_util clear, the streamer has submitted a frame and waits at the barrier.
C39_Witness ==
    /\ is_server /\ pc = "accept" /\ ctx = "reconnect"
    /\ ~stop_stream /\ ~stop_util
    /\ spc = "barrier" /\ pending = 1


\* C40: the server accepts, authenticates and records a peer only inside
\* _established_connection, which is entered from the constructor or from a
\* reconnect after _cleanup_tcp_socket has ended the previous connection, and
\* which is left as soon as a handshake has succeeded; while it runs the stream
\* is paused.
C40_OneClientAtATime ==
    /\ [][(accepts' # accepts \/ client_address' # client_address)
             => (is_server /\ pc = "accept")]_vars
    /\ [][(is_server /\ last_auth' # last_auth /\ last_auth' # NoAuth)
             => pc = "auth"]_vars
    /\ [][(is_server /\ pc' = "accept" /\ pc \notin {"accept", "auth"})
             => \/ pc = "init"
                \/ pc = "rc_cleanup" /\ client_tcp_socket' # "open"]_vars
    /\ [][(is_server /\ pc = "auth" /\ pc' = "accept")
             => ~(last_auth'.code = OK_MESSAGE /\ last_auth'.sent)]_vars
    /\ []((is_server /\ pc \in {"accept", "auth"})
             => (ctx \in {"init", "reconnect"} /\ ~stop_stream))

\* C40 witness: after a session with one peer ended in a reconnect, the other
\* peer has been accepted and authenticated and its session is running.
C40_Witness ==
    /\ is_server /\ pc = "hb_loop" /\ ctx = "loop" /\ reconnects
    /\ accepts >= 2 /\ Authenticated /\ stop_stream /\ ~stop_util
    /\ client_address \in IPs /\ config_sent = client_address
    /\ client_tcp_socket = "open"
    /\ \E ip \in IPs \ {client_address} :
          ban_list[ip] # NoEntry /\ ban_list[ip].success_connect_attempts = 1

=============================================================================
